---- MODULE Spec2Model ----
(***************************************************************************)
(* Model of src/app/components/SnakeGame.tsx: the Snake widget's React     *)
(* state, its refs, the interval timer of the game loop effect and the     *)
(* keyboard / touch / restart handlers.                                    *)
(*                                                                         *)
(* Atomicity: a handler, the render it schedules and the effects of that   *)
(* render are one step.  keydown, touchend and click are discrete events,  *)
(* so React renders and flushes their effects before the next event or     *)
(* timer callback is delivered; the interval period is far longer than a   *)
(* render.                                                                 *)
(***************************************************************************)
EXTENDS Integers, Sequences, FiniteSets, TLC

\* ------------------------------------------------------------ constants
BOARD_SIZE == 15
SPEED == 150
Threshold == 20

\* ------------------------------------------------------------ bounds
\* Longest snake explored: a tick that would grow the snake beyond it is cut.
MaxLen == 2

\* ------------------------------------------------------------ values
Cell(px, py) == [x |-> px, y |-> py]

INITIAL_SNAKE == <<Cell(7, 7)>>
INITIAL_DIRECTION == Cell(0, -1)

Up == Cell(0, -1)
Down == Cell(0, 1)
Left == Cell(-1, 0)
Right == Cell(1, 0)
Directions == {Up, Down, Left, Right}
\* "no direction requested" / "no tick yet"
NoDir == Cell(0, 0)

Neg(d) == Cell(-d.x, -d.y)

\* The draws of Math.floor(Math.random() * BOARD_SIZE) that are explored: the
\* start cell, the cell above it and the cell across the top edge.
RandomCells == {Cell(7, 7), Cell(7, 6), Cell(7, 14)}

\* e.key of the keydown events that are explored.
Keys == {"ArrowUp", "w", "ArrowDown", "S", "ArrowLeft", "A", "ArrowRight", "d",
         "x", "Enter"}

\* The keys the input surface names: the arrow keys and w/a/s/d in either case.
DirectionKeys == {"ArrowUp", "ArrowDown", "ArrowLeft", "ArrowRight",
                  "w", "a", "s", "d", "W", "A", "S", "D"}

\* clientX / clientY of the touches that are explored.
StartPoints == {Cell(21, 21)}
EndPoints == {Cell(21, 21), Cell(41, 41), Cell(1, 1), Cell(42, 21), Cell(0, 21),
              Cell(21, 42), Cell(21, 0), Cell(42, 0), Cell(0, 42), Cell(41, 0)}

\* ------------------------------------------------------------ state
VARIABLES
    snake, direction, food, score, gameOver, isPlaying,   \* useState
    moveRef, gameOverRef, foodRef, isPlayingRef,          \* useRef
    timer,          \* the interval of the game loop effect
    startX, startY, \* locals of the touch effect
    mounted,        \* the component is mounted
    listeners,      \* the event types with a handler registered on window
    stale,          \* intervals set by an earlier run of the game loop effect
                    \* and still live after its cleanup
    lastDir,        \* history: direction applied by the last tick (NoDir: none)
    lastOp          \* history: the kind of operation that produced this state:
                    \* "mount", "input" (recognised key, swipe, touch start),
                    \* "malformed" (other key, short swipe), "time", "tick",
                    \* "restart", "unmount"

vars == <<snake, direction, food, score, gameOver, isPlaying,
          moveRef, gameOverRef, foodRef, isPlayingRef,
          timer, startX, startY, mounted, listeners, stale, lastDir, lastOp>>

\* ------------------------------------------------------------ pure parts
\* JavaScript's %: the remainder takes the sign of the dividend.
JsRem(a, b) == IF a >= 0 THEN a % b ELSE -((-a) % b)

Abs(n) == IF n < 0 THEN -n ELSE n

\* snake.some((s) => s.x === c.x && s.y === c.y)
Contains(s, c) == \E i \in 1..Len(s) : s[i].x = c.x /\ s[i].y = c.y

\* Faulty variant of getRandomFood: only the head is tested for overlap.
getRandomFoodOffHead(s) == {c \in RandomCells : c # s[1]}

\* Faulty variant of getRandomFood: the draw is returned without the rejection loop.
getRandomFoodAnyCell(s) == RandomCells

\* getRandomFood: the cells the rejection loop can return.
getRandomFood(s) == {c \in RandomCells : ~Contains(s, c)}

\* Faulty variant of NewHead: the "+ BOARD_SIZE" before the remainder is missing.
NewHeadNoOffset(prev, dir) ==
    Cell(JsRem(prev[1].x + dir.x, BOARD_SIZE),
         JsRem(prev[1].y + dir.y, BOARD_SIZE))

\* newHead of the game loop.
NewHead(prev, dir) ==
    Cell(JsRem(prev[1].x + dir.x + BOARD_SIZE, BOARD_SIZE),
         JsRem(prev[1].y + dir.y + BOARD_SIZE, BOARD_SIZE))

\* Faulty variant of DropLast: prev.slice(1), dropping the head end.
DropFirst(s) == SubSeq(s, 2, Len(s))

\* prev.slice(0, -1)
DropLast(s) == SubSeq(s, 1, Len(s) - 1)

\* Faulty variant of Collides: the tail cell, about to be vacated, is exempt.
CollidesIgnoringTail(prev, h) == Contains(SubSeq(prev, 1, Len(prev) - 1), h)

\* "prev.some((s) => s.x === newHead.x && s.y === newHead.y)": the self-collision test.
Collides(prev, h) == Contains(prev, h)

\* Faulty variant of Grow: the eating branch slices too, so the snake never grows.
GrowDroppingTail(h, prev) == <<h>> \o SubSeq(prev, 1, Len(prev) - 1)

\* "[newHead, ...prev]": the snake after eating.
Grow(h, prev) == <<h>> \o prev

\* Faulty variant of Shift: the new head is not prepended.
ShiftWithoutHead(h, prev) == SubSeq(prev, 1, Len(prev) - 1)

\* Faulty variant of Shift: the slice is missing, so every move grows the snake.
ShiftKeepingTail(h, prev) == <<h>> \o prev

\* "[newHead, ...prev.slice(0, -1)]": the snake after a plain move.
Shift(h, prev) == <<h>> \o DropLast(prev)

\* The interval: live between setInterval and clearInterval, dir is the
\* direction its callback captured, due once a period of SPEED ms has elapsed
\* since it was set or last fired.
NoTimer == [live |-> FALSE, dir |-> NoDir, due |-> FALSE]

\* Faulty variant of ClearInterval: the effect returns no cleanup.
ClearIntervalMissing(t) == IF t.live THEN {t} ELSE {}

\* "return () => clearInterval(interval);": the intervals of the effect run being
\* cleaned up that are still live afterwards.
ClearInterval(t) == {}

\* The add/removeEventListener calls of the keyboard and touch effects.
AddListeners == {"keydown", "touchstart", "touchend"}
RemoveListeners(l) == l \ {"keydown", "touchstart", "touchend"}

\* Faulty variant of SyncedFood: food is missing from the ref sync effect's
\* dependencies, so the ref keeps the value of the first render.
SyncedFoodStale(old, new) == old

\* "foodRef.current = food;" after a render in which food changed.
SyncedFood(old, new) == new

\* The case labels of handleKey's switch: the direction a key requests.
KeyDir(k) ==
    CASE k \in {"ArrowUp", "w", "W"} -> Up
      [] k \in {"ArrowDown", "s", "S"} -> Down
      [] k \in {"ArrowLeft", "a", "A"} -> Left
      [] k \in {"ArrowRight", "d", "D"} -> Right
      [] OTHER -> NoDir

\* The reversal guards of handleKey / handleTouchEnd, each against moveRef.current.
Allowed(req, cur) ==
    CASE req = Up -> cur.y # 1
      [] req = Down -> cur.y # -1
      [] req = Left -> cur.x # 1
      [] req = Right -> cur.x # -1
      [] OTHER -> FALSE

\* Faulty variant of SwipeDir: a tie between the axes counts as horizontal.
SwipeDirTieHorizontal(dx, dy, cur) ==
    IF Abs(dx) >= Abs(dy)
    THEN IF dx > Threshold /\ cur.x # -1 THEN Right
         ELSE IF dx < -Threshold /\ cur.x # 1 THEN Left
         ELSE NoDir
    ELSE IF dy > Threshold /\ cur.y # -1 THEN Down
         ELSE IF dy < -Threshold /\ cur.y # 1 THEN Up
         ELSE NoDir

\* Faulty variant of SwipeDir: the threshold comparisons are inclusive.
SwipeDirInclusive(dx, dy, cur) ==
    IF Abs(dx) > Abs(dy)
    THEN IF dx >= Threshold /\ cur.x # -1 THEN Right
         ELSE IF dx <= -Threshold /\ cur.x # 1 THEN Left
         ELSE NoDir
    ELSE IF dy >= Threshold /\ cur.y # -1 THEN Down
         ELSE IF dy <= -Threshold /\ cur.y # 1 THEN Up
         ELSE NoDir

\* The direction handleTouchEnd passes to setDirection (NoDir: no call).
SwipeDir(dx, dy, cur) ==
    IF Abs(dx) > Abs(dy)
    THEN IF dx > Threshold /\ cur.x # -1 THEN Right
         ELSE IF dx < -Threshold /\ cur.x # 1 THEN Left
         ELSE NoDir
    ELSE IF dy > Threshold /\ cur.y # -1 THEN Down
         ELSE IF dy < -Threshold /\ cur.y # 1 THEN Up
         ELSE NoDir

\* A swipe too short on both axes to request a direction.
WithinThreshold(dx, dy) == Abs(dx) <= Threshold /\ Abs(dy) <= Threshold

\* Faulty variant of Ignored: the early return is missing.
IgnoredNever(goRef) == FALSE

\* "if (gameOverRef.current) return;" of both input handlers.
Ignored(goRef) == goRef

\* Faulty variant of StartOnInput: the flag is toggled instead of set.
StartOnInputToggle(ipRef, ip) == ~ipRef

\* "if (!isPlayingRef.current) setIsPlaying(true);"
StartOnInput(ipRef, ip) == IF ~ipRef THEN TRUE ELSE ip

\* Faulty variant of ClockRuns: the gameOver test is missing.
ClockRunsWhilePlaying(go, ip) == ip

\* "if (gameOver || !isPlaying) return;" of the game loop effect, negated.
ClockRuns(go, ip) == ~(go \/ ~ip)

\* Faulty variant of GameLoopEffect: direction is missing from the dependencies,
\* so a running interval keeps the direction it captured.
GameLoopEffectStale(t, changed, dir, go, ip) ==
    IF ~changed \/ (t.live /\ ~(go \/ ~ip)) THEN t
    ELSE IF ~(go \/ ~ip) THEN [live |-> TRUE, dir |-> dir, due |-> FALSE]
    ELSE [live |-> FALSE, dir |-> NoDir, due |-> FALSE]

\* The game loop effect after a render: when one of its dependencies
\* [direction, gameOver, isPlaying] changed, the cleanup clears the old interval
\* and a new one is set (capturing the render's direction) if the game runs.
\* setDirection always passes a fresh object, so every call changes the deps.
GameLoopEffect(t, changed, dir, go, ip) ==
    IF ~changed THEN t
    ELSE IF ClockRuns(go, ip) THEN [live |-> TRUE, dir |-> dir, due |-> FALSE]
    ELSE NoTimer

\* The render after a handler: the ref sync effect and the game loop effect.
Render(changed) ==
    /\ moveRef' = direction'
    /\ gameOverRef' = gameOver'
    /\ foodRef' = SyncedFood(foodRef, food')
    /\ isPlayingRef' = isPlaying'
    /\ timer' = GameLoopEffect(timer, changed, direction', gameOver', isPlaying')
    /\ stale' = IF changed THEN stale \cup ClearInterval(timer) ELSE stale

\* ------------------------------------------------------------ initial state
Init ==
    /\ snake = INITIAL_SNAKE
    /\ direction = INITIAL_DIRECTION
    /\ food \in getRandomFood(INITIAL_SNAKE)
    /\ score = 0
    /\ gameOver = FALSE
    /\ isPlaying = FALSE
    /\ moveRef = direction
    /\ gameOverRef = gameOver
    /\ foodRef = food
    /\ isPlayingRef = isPlaying
    /\ timer = NoTimer
    /\ startX = 0
    /\ startY = 0
    /\ mounted = TRUE
    /\ listeners = AddListeners
    /\ stale = {}
    /\ lastDir = NoDir
    /\ lastOp = "mount"

\* ------------------------------------------------------------ operations
\* Body shared by the two input handlers once the requested direction is known:
\* req is the argument of setDirection, NoDir when setDirection is not called.
ApplyInput(req) ==
    /\ isPlaying' = StartOnInput(isPlayingRef, isPlaying)
    /\ direction' = IF req # NoDir THEN req ELSE direction
    /\ UNCHANGED <<snake, food, score, gameOver>>
    /\ Render(req # NoDir \/ isPlaying' # isPlaying)

\* handleKey
KeyDown(k) ==
    /\ "keydown" \in listeners
    /\ lastOp' = IF k \in DirectionKeys THEN "input" ELSE "malformed"
    /\ UNCHANGED <<startX, startY, mounted, listeners, lastDir>>
    /\ IF Ignored(gameOverRef)
       THEN UNCHANGED <<snake, direction, food, score, gameOver, isPlaying,
                        moveRef, gameOverRef, foodRef, isPlayingRef, timer, stale>>
       ELSE ApplyInput(IF Allowed(KeyDir(k), moveRef) THEN KeyDir(k) ELSE NoDir)

\* handleTouchStart
TouchStart(p) ==
    /\ "touchstart" \in listeners
    /\ startX' = p.x
    /\ startY' = p.y
    /\ lastOp' = "input"
    /\ UNCHANGED <<snake, direction, food, score, gameOver, isPlaying,
                   moveRef, gameOverRef, foodRef, isPlayingRef, timer,
                   mounted, listeners, stale, lastDir>>

\* handleTouchEnd
TouchEnd(p) ==
    /\ "touchend" \in listeners
    /\ lastOp' = IF WithinThreshold(p.x - startX, p.y - startY)
                  THEN "malformed" ELSE "input"
    /\ UNCHANGED <<startX, startY, mounted, listeners, lastDir>>
    /\ IF Ignored(gameOverRef)
       THEN UNCHANGED <<snake, direction, food, score, gameOver, isPlaying,
                        moveRef, gameOverRef, foodRef, isPlayingRef, timer, stale>>
       ELSE ApplyInput(SwipeDir(p.x - startX, p.y - startY, moveRef))

\* A period of SPEED ms elapses on the pending interval.
Advance ==
    /\ timer.live
    /\ ~timer.due
    /\ timer' = [timer EXCEPT !.due = TRUE]
    /\ lastOp' = "time"
    /\ UNCHANGED <<snake, direction, food, score, gameOver, isPlaying,
                   moveRef, gameOverRef, foodRef, isPlayingRef,
                   startX, startY, mounted, listeners, stale, lastDir>>

\* The interval callback: the setSnake updater with the direction its closure
\* captured, then the render.
Tick ==
    /\ timer.live
    /\ timer.due
    /\ lastOp' = "tick"
    /\ lastDir' = timer.dir
    /\ UNCHANGED <<direction, isPlaying, startX, startY, mounted, listeners>>
    /\ LET newHead == NewHead(snake, timer.dir) IN
       IF Collides(snake, newHead)
       THEN /\ gameOver' = TRUE
            /\ UNCHANGED <<snake, food, score>>
            /\ Render(TRUE)
       ELSE IF newHead.x = foodRef.x /\ newHead.y = foodRef.y
       THEN /\ Len(snake) < MaxLen
            /\ snake' = Grow(newHead, snake)
            /\ food' \in getRandomFood(snake')
            /\ score' = score + 1
            /\ UNCHANGED gameOver
            /\ moveRef' = direction'
            /\ gameOverRef' = gameOver'
            /\ foodRef' = SyncedFood(foodRef, food')
            /\ isPlayingRef' = isPlaying'
            /\ timer' = [timer EXCEPT !.due = FALSE]
            /\ UNCHANGED stale
       ELSE /\ snake' = Shift(newHead, snake)
            /\ UNCHANGED <<food, score, gameOver>>
            /\ UNCHANGED <<moveRef, gameOverRef, foodRef, isPlayingRef, stale>>
            /\ timer' = [timer EXCEPT !.due = FALSE]

\* Faulty variant of Restart: setGameOver(false) is missing.
RestartKeepsGameOver ==
    /\ mounted
    /\ gameOver
    /\ snake' = INITIAL_SNAKE
    /\ food' \in getRandomFood(INITIAL_SNAKE)
    /\ direction' = INITIAL_DIRECTION
    /\ score' = 0
    /\ gameOver' = gameOver
    /\ isPlaying' = FALSE
    /\ Render(TRUE)
    /\ lastDir' = NoDir
    /\ lastOp' = "restart"
    /\ UNCHANGED <<startX, startY, mounted, listeners>>

\* handleRestart, reachable through the "Play Again" button, which is rendered
\* only while gameOver.
Restart ==
    /\ mounted
    /\ gameOver
    /\ snake' = INITIAL_SNAKE
    /\ food' \in getRandomFood(INITIAL_SNAKE)
    /\ direction' = INITIAL_DIRECTION
    /\ score' = 0
    /\ gameOver' = FALSE
    /\ isPlaying' = FALSE
    /\ Render(TRUE)
    /\ lastDir' = NoDir
    /\ lastOp' = "restart"
    /\ UNCHANGED <<startX, startY, mounted, listeners>>

\* The component unmounts: the cleanups of the keyboard, game loop and touch
\* effects run.  The state values and refs are left as they were.
Unmount ==
    /\ mounted
    /\ mounted' = FALSE
    /\ listeners' = RemoveListeners(listeners)
    /\ timer' = NoTimer
    /\ stale' = stale \cup ClearInterval(timer)
    /\ lastOp' = "unmount"
    /\ UNCHANGED <<snake, direction, food, score, gameOver, isPlaying,
                   moveRef, gameOverRef, foodRef, isPlayingRef,
                   startX, startY, lastDir>>

Next ==
    \/ \E k \in Keys : KeyDown(k)
    \/ \E p \in StartPoints : TouchStart(p)
    \/ \E p \in EndPoints : TouchEnd(p)
    \/ Advance
    \/ Tick
    \/ Restart
    \/ Unmount

Spec == Init /\ [][Next]_vars

\* ------------------------------------------------------------ touches only
\* The touch handlers alone, over a grid of touch points whose differences hit
\* 0, 1, 20, 21, 22, 41 and 42 in both signs.
SwipeCoords == {0, 20, 21, 41, 42}
SwipePoints == {Cell(cx, cy) : cx \in SwipeCoords, cy \in SwipeCoords}

SwipeStart == \E p \in SwipePoints : TouchStart(p)
SwipeEnd == \E p \in SwipePoints : TouchEnd(p)
SwipeNext == SwipeStart \/ SwipeEnd

SwipeSpec == Init /\ [][SwipeNext]_vars

\* ------------------------------------------------------------ a full game
\* One play of the game with the draws of getRandomFood taken from the whole
\* board and no bound on the length: the player steers along the closed route
\* "right along a row, down one at its last cell" that visits every cell of the
\* torus, and each draw returns the cell ahead of the new head.
BoardCells == {Cell(cx, cy) : cx \in 0..(BOARD_SIZE - 1), cy \in 0..(BOARD_SIZE - 1)}

\* getRandomFood with draws from the whole board: the cells it can return.
FreeCells(s) == {c \in BoardCells : ~Contains(s, c)}

\* The direction of the route at a cell, and the key that requests it.
RouteDir(c) == IF c.x = (13 - c.y) % BOARD_SIZE THEN Down ELSE Right
RouteKey(c) == IF RouteDir(c) = Down THEN "ArrowDown" ELSE "ArrowRight"
RouteAhead(c) ==
    Cell((c.x + RouteDir(c).x) % BOARD_SIZE, (c.y + RouteDir(c).y) % BOARD_SIZE)

FillInit ==
    /\ snake = INITIAL_SNAKE
    /\ direction = INITIAL_DIRECTION
    /\ food = RouteAhead(INITIAL_SNAKE[1])
    /\ food \in FreeCells(INITIAL_SNAKE)
    /\ score = 0
    /\ gameOver = FALSE
    /\ isPlaying = FALSE
    /\ moveRef = direction
    /\ gameOverRef = gameOver
    /\ foodRef = food
    /\ isPlayingRef = isPlaying
    /\ timer = NoTimer
    /\ startX = 0
    /\ startY = 0
    /\ mounted = TRUE
    /\ listeners = AddListeners
    /\ stale = {}
    /\ lastDir = NoDir
    /\ lastOp = "mount"

\* The player presses the route's key when the direction is not the route's.
FillKey ==
    /\ ~isPlaying \/ direction # RouteDir(snake[1])
    /\ KeyDown(RouteKey(snake[1]))

\* The period elapses once the direction is the route's.
FillAdvance ==
    /\ direction = RouteDir(snake[1])
    /\ Advance

\* The interval callback, as Tick, with getRandomFood drawing from the whole
\* board.  When no cell is free the rejection loop has nothing to return and
\* the step never completes.
FillTick ==
    /\ timer.live
    /\ timer.due
    /\ lastOp' = "tick"
    /\ lastDir' = timer.dir
    /\ UNCHANGED <<direction, isPlaying, startX, startY, mounted, listeners>>
    /\ LET newHead == NewHead(snake, timer.dir) IN
       IF Collides(snake, newHead)
       THEN /\ gameOver' = TRUE
            /\ UNCHANGED <<snake, food, score>>
            /\ Render(TRUE)
       ELSE IF newHead.x = foodRef.x /\ newHead.y = foodRef.y
       THEN /\ snake' = Grow(newHead, snake)
            /\ food' \in {c \in FreeCells(snake') : c = RouteAhead(newHead)}
            /\ score' = score + 1
            /\ UNCHANGED gameOver
            /\ moveRef' = direction'
            /\ gameOverRef' = gameOver'
            /\ foodRef' = SyncedFood(foodRef, food')
            /\ isPlayingRef' = isPlaying'
            /\ timer' = [timer EXCEPT !.due = FALSE]
            /\ UNCHANGED stale
       ELSE /\ snake' = Shift(newHead, snake)
            /\ UNCHANGED <<food, score, gameOver>>
            /\ UNCHANGED <<moveRef, gameOverRef, foodRef, isPlayingRef, stale>>
            /\ timer' = [timer EXCEPT !.due = FALSE]

FillNext == FillKey \/ FillAdvance \/ FillTick

FillSpec == FillInit /\ [][FillNext]_vars

\* ------------------------------------------------------------ properties
\* The program's own state: React state, refs, interval and touch locals.
progVars == <<snake, direction, food, score, gameOver, isPlaying,
              moveRef, gameOverRef, foodRef, isPlayingRef, timer, startX, startY,
              mounted, listeners, stale>>

\* The toroidal successor of a cell, by mathematical modulo.
WrapHead(h, d) == Cell((h.x + d.x) % BOARD_SIZE, (h.y + d.y) % BOARD_SIZE)

IsInput == lastOp' \in {"input", "malformed"}
IsTick == lastOp' = "tick"

\* C1: the direction applied by a tick is never the negation of the direction
\* applied by the previous tick of the same game, whatever input events were
\* delivered in between.
C1_NoReversal == [][IsTick => lastDir' # Neg(lastDir)]_vars

\* C2: once gameOver is set, no tick, key event or touch event changes snake,
\* direction, food, score or the status flags; only restart does.
C2_GameOverTerminal ==
    [][(gameOver /\ lastOp' # "restart")
         => UNCHANGED <<snake, direction, food, score, gameOver, isPlaying>>]_vars

\* C2 witness: an input event has been delivered to a finished game.
C2_Witness == gameOver /\ lastOp = "input" /\ Len(snake) = 2

\* C3 (as stated): a key other than the arrow keys and w/a/s/d, or a touch-end
\* with both deltas within the threshold, changes no state in any status.
C3_MalformedChangesNothing == [][lastOp' = "malformed" => UNCHANGED progVars]_vars

\* C3 (amended): such an input never changes snake, direction, food, score,
\* gameOver or the touch origin; it changes nothing at all while the game is
\* Running or GameOver; in NotStarted it sets isPlaying and starts the clock with
\* the direction unchanged.
C3_MalformedOnlyStarts ==
    [][lastOp' = "malformed"
         => /\ UNCHANGED <<snake, direction, food, score, gameOver, moveRef,
                           gameOverRef, foodRef, startX, startY>>
            /\ (gameOver \/ isPlaying) => UNCHANGED progVars
            /\ (~gameOver /\ ~isPlaying)
                 => /\ isPlaying' /\ isPlayingRef'
                    /\ timer' = [live |-> TRUE, dir |-> direction, due |-> FALSE]]_vars

\* C3 witness: a malformed input has just started a game that is still in its
\* initial configuration.
C3_Witness ==
    /\ lastOp = "malformed" /\ isPlaying /\ ~gameOver
    /\ snake = INITIAL_SNAKE /\ direction = INITIAL_DIRECTION /\ lastDir = NoDir
    /\ timer.live /\ ~timer.due

\* C4: while the game is Running, a key or touch event neither cancels the
\* interval nor resets the time already elapsed towards the next tick.
C4_InputKeepsClock ==
    [][(IsInput /\ isPlaying /\ ~gameOver)
         => (timer'.live /\ timer'.due = timer.due)]_vars

\* C5: every tick happens in a state where isPlaying is true and gameOver false.
C5_TickOnlyRunning == [][IsTick => (isPlaying /\ ~gameOver)]_vars

\* C5 witness: a tick has moved the snake.
C5_Witness == lastOp = "tick" /\ ~gameOver /\ snake # INITIAL_SNAKE

\* C6: restart yields exactly the initial configuration with food off the start
\* cell and no interval, and from then on an interval is only ever set by a key
\* or touch event.
C6_Restart ==
    /\ [](lastOp = "restart"
            => /\ snake = <<Cell(7, 7)>>
               /\ direction = Cell(0, -1)
               /\ score = 0
               /\ ~gameOver /\ ~isPlaying
               /\ food # Cell(7, 7)
               /\ ~timer.live)
    /\ [][(~timer.live /\ timer'.live) => IsInput]_vars

\* C6 witness: a finished game has been restarted and the new food lies across
\* the top edge.
C6_Witness == lastOp = "restart" /\ food = Cell(7, 14) /\ startX = 21

\* C7: every snake cell is on the board; a tick's new head is the toroidal
\* successor of the old head, and a tick ends the game only if that successor is
\* a cell of the snake (so stepping across an edge is a plain move).
C7_Wrap ==
    /\ [](\A i \in 1..Len(snake) :
            snake[i].x \in 0..(BOARD_SIZE - 1) /\ snake[i].y \in 0..(BOARD_SIZE - 1))
    /\ [][IsTick
            => IF gameOver'
               THEN Contains(snake, WrapHead(snake[1], timer.dir))
               ELSE snake'[1] = WrapHead(snake[1], timer.dir)]_vars

\* C7 witness: the head has just stepped upwards across the top edge.
C7_Witness ==
    lastOp = "tick" /\ ~gameOver /\ lastDir = Up /\ snake[1] = Cell(7, BOARD_SIZE - 1)

\* C8: a tick whose new head is a cell of the current snake (the tail included)
\* sets gameOver and leaves snake, food, score and direction as they were.
C8_CollisionFrame ==
    [][(IsTick /\ Contains(snake, WrapHead(snake[1], timer.dir)))
         => (gameOver' /\ UNCHANGED <<snake, food, score, direction>>)]_vars

\* C8 witness: the game has just ended on a tick whose new head was the tail cell.
C8_Witness ==
    /\ gameOver /\ lastOp = "tick"
    /\ WrapHead(snake[1], lastDir) = snake[Len(snake)]

\* C9: on a non-colliding tick the snake becomes the new head followed by the
\* whole previous snake when the new head is the food cell (score + 1, food
\* re-placed off the snake), and by the previous snake without its last cell
\* otherwise (score and food unchanged).
C9_MoveOrGrow ==
    [][(IsTick /\ ~Contains(snake, WrapHead(snake[1], timer.dir)))
         => LET h == WrapHead(snake[1], timer.dir) IN
            IF h = food
            THEN /\ snake' = <<h>> \o snake
                 /\ score' = score + 1
                 /\ food' # food /\ ~Contains(snake', food')
            ELSE /\ snake' = <<h>> \o SubSeq(snake, 1, Len(snake) - 1)
                 /\ score' = score /\ food' = food]_vars

\* C9 witness: the scenario snake [(7,7)], up, food (7,6) after its one tick.
C9_Witness ==
    lastOp = "tick" /\ snake = <<Cell(7, 6), Cell(7, 7)>> /\ score = 1

\* C10: between restarts the snake's length grows by exactly 1 on a tick that
\* moves the head onto the food and is unchanged by every other step.
C10_Length ==
    [][lastOp' # "restart"
         => Len(snake') = Len(snake)
                + (IF IsTick /\ snake'[1] = food THEN 1 ELSE 0)]_vars

\* C10 witness: a grown snake has gone on moving and taking input.
C10_Witness ==
    Len(snake) = 2 /\ lastOp = "input" /\ ~Contains(snake, Cell(7, 7)) /\ ~gameOver

\* C11: every food placement (at mount, on restart, on a food-eaten tick) yields
\* a cell that is not a cell of the snake as it is right after that operation.
C11_PlacedOffSnake ==
    /\ [](lastOp = "mount" => ~Contains(snake, food))
    /\ [][(lastOp' = "restart" \/ food' # food) => ~Contains(snake', food')]_vars

\* C11 witness: the first food has just been eaten and the next one placed
\* across the top edge.
C11_Witness ==
    lastOp = "tick" /\ snake = <<Cell(7, 6), Cell(7, 7)>> /\ food = Cell(7, 14)

C13_LatestIntentApplied ==
    /\ timer.live => timer.dir = direction
    /\ lastOp = "tick" => lastDir = direction

\* C13 witness: the first tick of a game has applied an intent accepted before it.
C13_Witness ==
    lastOp = "tick" /\ lastDir = Left /\ snake = <<Cell(6, 7)>> /\ score = 0

\* C14: a key or touch event leaves snake, food, score and gameOver unchanged;
\* the only status change it can make is NotStarted to Running.
C14_InputFrame ==
    [][IsInput
         => /\ UNCHANGED <<snake, food, score, gameOver>>
            /\ isPlaying' # isPlaying => (~isPlaying /\ ~gameOver /\ isPlaying')]_vars

\* C14 witness: an input has changed the direction and started the game, and the
\* snake is where it was.
C14_Witness ==
    /\ lastOp = "input" /\ direction = Left /\ isPlaying
    /\ snake = INITIAL_SNAKE /\ score = 0 /\ lastDir = NoDir

\* The intervals that are live: the current effect run's and the stale ones.
LiveTimers == (IF timer.live THEN 1 ELSE 0) + Cardinality(stale)

\* C15: at most one interval is live; none is live when the game is not Running
\* or the component is unmounted; after unmount no listener is registered and no
\* operation has run.
C15_OneTimer ==
    /\ LiveTimers <= 1
    /\ (gameOver \/ ~isPlaying \/ ~mounted) => LiveTimers = 0
    /\ ~mounted => (listeners = {} /\ lastOp = "unmount")

\* C15 witness: the component was unmounted while a game with a grown snake was
\* running.
C15_Witness == ~mounted /\ isPlaying /\ ~gameOver /\ Len(snake) = 2

\* C18: gameOver implies isPlaying.
C18_LegalStatus == gameOver => isPlaying

\* C18 witness: a finished game, still flagged as playing, has received a key.
C18_Witness == gameOver /\ isPlaying /\ lastOp = "malformed"

\* C19: score equals snake length minus 1.
C19_ScoreIsLength == score = Len(snake) - 1

\* C19 witness: a game in which food was eaten has ended.
C19_Witness == score = 1 /\ Len(snake) = 2 /\ gameOver /\ lastOp = "tick"

\* C20: the food cell is never a cell of the snake, and the food the tick
\* compares against (foodRef.current) is the current food.
C20_FoodOffSnake == foodRef = food /\ ~Contains(snake, food)

\* C20 witness: after eating, the food was re-placed on the vacated start cell
\* and the snake has moved on.
C20_Witness ==
    /\ lastOp = "tick" /\ ~gameOver /\ Len(snake) = 2 /\ food = Cell(7, 7)
    /\ ~Contains(snake, Cell(7, 6))

\* The direction C17 says a touch-end with delta (dx, dy) requests.
SwipeTable(dx, dy) ==
    IF Abs(dx) > Abs(dy) /\ dx > 20 THEN Right
    ELSE IF Abs(dx) > Abs(dy) /\ dx < -20 THEN Left
    ELSE IF Abs(dx) <= Abs(dy) /\ dy > 20 THEN Down
    ELSE IF Abs(dx) <= Abs(dy) /\ dy < -20 THEN Up
    ELSE NoDir

\* C16: food placement always terminates: no tick that must place food is ever
\* due with the grown snake occupying every cell of the board.
C16_PlacementTerminates ==
    ~(/\ timer.live /\ timer.due
      /\ LET h == NewHead(snake, timer.dir) IN
           /\ ~Collides(snake, h)
           /\ h = foodRef
           /\ FreeCells(Grow(h, snake)) = {})

\* C17: a touch-end with delta (dx, dy) from the recorded touch-start requests
\* right, left, down or up exactly as the table says and nothing otherwise: the
\* direction becomes the table's entry unless that is none or the reverse of
\* the current direction, and is unchanged then.
C17_SwipeTable ==
    [][\A p \in SwipePoints :
         TouchEnd(p)
           => LET req == SwipeTable(p.x - startX, p.y - startY) IN
              direction' = IF req # NoDir /\ req # Neg(moveRef)
                           THEN req ELSE direction]_vars

\* C17 witness: a swipe to the left from a touch-start at the right has set the
\* direction.
C17_Witness ==
    /\ direction = Left /\ timer.live /\ timer.dir = Left
    /\ startX = 42 /\ lastOp = "input"

====
